---------------------------- MODULE Spec2Model ----------------------------
(***************************************************************************)
(* A model of @foxglove/velodyne-cloud:                                    *)
(*   - PointCloud (src/src/PointCloud.ts 49-130): the append-only 28-byte  *)
(*     record buffer with its addPoint / point / trim operations;          *)
(*   - Calibration.BuildTimingsFor / BuildTimings (PointCloud.ts 204-256); *)
(*   - RawPacket (src/src/RawPacket.ts 18-111): the constructor, the       *)
(*     static InferModel and GpsTimestampToTimestamp.                      *)
(*                                                                         *)
(* Number representations.  TLC's integers are 32-bit signed, so:          *)
(*   - a JS number that is float32-representable is the record             *)
(*     [s, e, m] of its binary32 sign, biased exponent and mantissa; the   *)
(*     single JS NaN value is the record NaN;                              *)
(*   - the uint32 argument deltaNs is [lo, hi, ovf] = lo + hi*2^16 +       *)
(*     ovf*2^32 (ovf # 0 only for out-of-range arguments);                 *)
(*   - times are little-endian tuples of base-10^6 limbs.                  *)
(***************************************************************************)
EXTENDS Integers, Sequences, FiniteSets, TLC

VARIABLES
    \* ---- PointCloud ----
    maxPoints,   \* the constructor's maxPoints option
    buffer,      \* the ArrayBuffer behind data and #view: [0..n-1 -> 0..255]
    data,        \* this.data: a Uint8Array view [byteOffset, byteLength]
    view,        \* this.#view: a DataView [byteOffset, byteLength]
    width,       \* this.width
    row_step,    \* this.row_step
    written,     \* history: the arguments of the addPoint calls that returned
    lastOp,      \* history: the last call and how it ended
    prevLen,     \* history: data.byteLength before the last call
    \* ---- Calibration timing table ----
    model,       \* the Model given to BuildTimingsFor
    timingOffsets, \* the table it returned (entries in 1/16 ns)
    cell,        \* the (row, column) last looked up, or <<>>
    \* ---- RawPacket ----
    pktBuffer,   \* the ArrayBuffer behind the packet bytes
    pktData,     \* the Uint8Array handed to the constructor [byteOffset, length]
    packet,      \* the RawPacket constructed, or the error thrown, by status
    inferred,    \* the last result of InferModel
    \* ---- GpsTimestampToTimestamp ----
    gpsTimestamp, \* the argument, limbs base 10^6
    topOfHour,    \* the Date used (epoch milliseconds, limbs)
    timestamp     \* the value returned (microseconds, limbs), <<>> before a call

cloudVars  == <<maxPoints, buffer, data, view, width, row_step, written, lastOp, prevLen>>
timingVars == <<model, timingOffsets, cell>>
packetVars == <<pktBuffer, pktData, packet, inferred>>
timeVars   == <<gpsTimestamp, topOfHour, timestamp>>
vars == <<cloudVars, timingVars, packetVars, timeVars>>

-----------------------------------------------------------------------------
(* Bounds of the model *)

\* the largest capacity a PointCloud is constructed with
MaxPoints == 3

-----------------------------------------------------------------------------
(* Bytes, DataView accessors *)

Byte == 0..255

\* byteLength of an ArrayBuffer
ByteLength(b) == Cardinality(DOMAIN b)

\* an ArrayBuffer of n zero bytes
ZeroBuffer(n) == [i \in 0..(n - 1) |-> 0]

\* DataView bounds check of an access of `size` bytes at `off`
ViewInBounds_unchecked(v, off, size) == TRUE
ViewInBounds(v, off, size) == off + size <= v.byteLength

\* the one NaN value of a JS number
NaN == [s |-> 0, e |-> 255, m |-> 4194304]

IsNaNBits(f) == f.e = 255 /\ f.m # 0

\* the binary32 encodings an engine may store for NaN (SetValueInBuffer leaves
\* the choice to the implementation)
NaNEncodings ==
    { [s |-> 0, e |-> 255, m |-> 4194304],
      [s |-> 1, e |-> 255, m |-> 1] }

\* little-endian bytes of a binary32 value
Float32Bytes(f) ==
    << f.m % 256,
       (f.m \div 256) % 256,
       (f.e % 2) * 128 + (f.m \div 65536),
       f.s * 128 + (f.e \div 2) >>

\* ToUint16 then little-endian bytes
Uint16Bytes_bigEndian(n) == << (n % 65536) \div 256, (n % 65536) % 256 >>
Uint16Bytes(n) == << (n % 65536) % 256, (n % 65536) \div 256 >>

\* ToUint32 then little-endian bytes
Uint32Bytes(n) ==
    << n.lo % 256, n.lo \div 256, n.hi % 256, n.hi \div 256 >>

\* bytes bs stored at absolute offset off of buffer b
StoreBytes(b, off, bs) ==
    [i \in DOMAIN b |->
        IF i >= off /\ i < off + Len(bs) THEN bs[i - off + 1] ELSE b[i]]

\* view.getFloat32(off, true)
GetFloat32(b, v, off) ==
    LET a  == v.byteOffset + off
        b0 == b[a]
        b1 == b[a + 1]
        b2 == b[a + 2]
        b3 == b[a + 3]
        f  == [s |-> b3 \div 128,
               e |-> (b3 % 128) * 2 + (b2 \div 128),
               m |-> (b2 % 128) * 65536 + b1 * 256 + b0]
    IN  IF IsNaNBits(f) THEN NaN ELSE f

\* view.getUint16(off, true)
GetUint16(b, v, off) ==
    LET a == v.byteOffset + off IN b[a] + b[a + 1] * 256

\* view.getUint32(off, true)
GetUint32(b, v, off) ==
    LET a == v.byteOffset + off
    IN  [lo |-> b[a] + b[a + 1] * 256, hi |-> b[a + 2] + b[a + 3] * 256, ovf |-> 0]

-----------------------------------------------------------------------------
(* PointCloud *)

POINT_STEP == 28

\* float32-representable numbers used as arguments
F32(s, e, m) == [s |-> s, e |-> e, m |-> m]
PosZero   == F32(0, 0, 0)
NegZero   == F32(1, 0, 0)
MinSubnormal == F32(0, 0, 1)
MaxFloat  == F32(0, 254, 8388607)
NegMaxFloat == F32(1, 254, 8388607)
PosInf    == F32(0, 255, 0)
NegInf    == F32(1, 255, 0)
One       == F32(0, 127, 0)
F255      == F32(0, 134, 8323072)
Pattern   == F32(1, 129, 1193046)

U32(lo, hi, ovf) == [lo |-> lo, hi |-> hi, ovf |-> ovf]

Pt(x, y, z, distance, intensity, ring, azimuth, deltaNs) ==
    [x |-> x, y |-> y, z |-> z, distance |-> distance, intensity |-> intensity,
     ring |-> ring, azimuth |-> azimuth, deltaNs |-> deltaNs]

\* the argument tuples addPoint is called with
SamplePoints ==
    { Pt(PosZero, PosZero, PosZero, PosZero, PosZero, 0, 0, U32(0, 0, 0)),
      Pt(NegZero, MinSubnormal, MaxFloat, NegMaxFloat, PosInf,
         65535, 65535, U32(65535, 65535, 0)),
      Pt(NaN, One, Pattern, NegInf, NaN, 513, 35999, U32(513, 1027, 0)),
      Pt(One, Pattern, NegZero, F255, PosInf, 31, 1, U32(1, 0, 0)),
      \* ring, azimuth and deltaNs outside uint16 / uint32
      Pt(Pattern, F255, One, MaxFloat, One, 65536, 65537, U32(0, 0, 1)) }

\* whether the integer arguments are in the range of their fields
InRange(p) ==
    /\ p.ring \in 0..65535
    /\ p.azimuth \in 0..65535
    /\ p.deltaNs.ovf = 0

\* the bytes setFloat32 stores for a number, nanBits being the engine's NaN
EncF32(x, nanBits) == Float32Bytes(IF x = NaN THEN nanBits ELSE x)

\* the eight writes of addPoint, in order: <<offset in the record, bytes>>
PointWrites(p, nanBits) ==
    << <<0,  EncF32(p.x, nanBits)>>,
       <<4,  EncF32(p.y, nanBits)>>,
       <<8,  EncF32(p.z, nanBits)>>,
       <<12, EncF32(p.distance, nanBits)>>,
       <<16, EncF32(p.intensity, nanBits)>>,
       <<20, Uint16Bytes(p.ring)>>,
       <<22, Uint16Bytes(p.azimuth)>>,
       <<24, Uint32Bytes(p.deltaNs)>> >>

\* the writes ws[k..] applied in order through DataView v at record offset
\* `offset`; a write out of the view's bounds throws a RangeError and the
\* writes before it stay
RECURSIVE ApplyWrites(_, _, _, _, _)
ApplyWrites(b, v, offset, ws, k) ==
    IF k > Len(ws) THEN [buffer |-> b, threw |-> FALSE]
    ELSE IF ~ViewInBounds(v, offset + ws[k][1], Len(ws[k][2]))
         THEN [buffer |-> b, threw |-> TRUE]
         ELSE ApplyWrites(StoreBytes(b, v.byteOffset + offset + ws[k][1], ws[k][2]),
                          v, offset, ws, k + 1)

\* the record offset addPoint writes at
AddOffset_zero(w) == 0
AddOffset(w) == w * POINT_STEP

\* new PointCloud({stamp, maxPoints})
InitCloud ==
    /\ maxPoints \in 0..MaxPoints
    /\ buffer = ZeroBuffer(maxPoints * POINT_STEP)
    /\ data = [byteOffset |-> 0, byteLength |-> maxPoints * POINT_STEP]
    /\ view = [byteOffset |-> 0, byteLength |-> maxPoints * POINT_STEP]
    /\ width = 0
    /\ row_step = 0
    /\ written = <<>>
    /\ lastOp = "new"
    /\ prevLen = maxPoints * POINT_STEP
    \* the other classes, unused
    /\ model = "none"
    /\ timingOffsets = <<>>
    /\ cell = <<>>
    /\ pktBuffer = <<>>
    /\ pktData = [byteOffset |-> 0, length |-> 0]
    /\ packet = [status |-> "none"]
    /\ inferred = "none"
    /\ gpsTimestamp = <<>>
    /\ topOfHour = <<>>
    /\ timestamp = <<>>

\* addPoint(x, y, z, distance, intensity, ring, azimuth, deltaNs)
addPoint ==
    \E p \in SamplePoints, nanBits \in NaNEncodings :
        LET offset == AddOffset(width)
            r == ApplyWrites(buffer, view, offset, PointWrites(p, nanBits), 1)
        IN  /\ buffer' = r.buffer
            /\ IF r.threw
               THEN /\ UNCHANGED <<width, row_step, written>>
                    /\ lastOp' = "addPoint:RangeError"
               ELSE /\ width' = width + 1
                    /\ row_step' = (width + 1) * POINT_STEP
                    /\ written' = Append(written, p)
                    /\ lastOp' = "addPoint"
            /\ prevLen' = data.byteLength
            /\ UNCHANGED <<maxPoints, data, view>>
            /\ UNCHANGED <<timingVars, packetVars, timeVars>>

\* point(index); a read out of the view's bounds throws
point(index) ==
    LET offset == index * POINT_STEP
    IN  IF ~ViewInBounds(view, offset, POINT_STEP) THEN [error |-> "RangeError"]
        ELSE [x         |-> GetFloat32(buffer, view, offset + 0),
              y         |-> GetFloat32(buffer, view, offset + 4),
              z         |-> GetFloat32(buffer, view, offset + 8),
              distance  |-> GetFloat32(buffer, view, offset + 12),
              intensity |-> GetFloat32(buffer, view, offset + 16),
              ring      |-> GetUint16(buffer, view, offset + 20),
              azimuth   |-> GetUint16(buffer, view, offset + 22),
              deltaNs   |-> GetUint32(buffer, view, offset + 24)]

\* the length trim gives the new Uint8Array
TrimLength_keep == data.byteLength
TrimLength == row_step

\* trim(): new Uint8Array(this.data.buffer, this.data.byteOffset, this.row_step)
trim ==
    /\ IF data.byteOffset + TrimLength <= ByteLength(buffer)
       THEN /\ data' = [byteOffset |-> data.byteOffset, byteLength |-> TrimLength]
            /\ lastOp' = "trim"
       ELSE /\ UNCHANGED data
            /\ lastOp' = "trim:RangeError"
    /\ prevLen' = data.byteLength
    /\ UNCHANGED <<maxPoints, buffer, view, width, row_step, written>>
    /\ UNCHANGED <<timingVars, packetVars, timeVars>>

-----------------------------------------------------------------------------
(* Calibration: the timing-offset table.  Durations are whole nanoseconds  *)
(* (the source's microsecond constants times 1000) and table entries are   *)
(* exact rationals held in sixteenths of a nanosecond, so that y / 16 and  *)
(* y / 2, which JS evaluates as real division, are exact.                  *)

\* enum Model (VelodyneTypes)
Models ==
    {"VLP16", "VLP16HiRes", "VLP32C", "HDL32E", "HDL64E", "HDL64E_S21",
     "HDL64E_S3", "VLS128"}

VLP16_DSR_TOFFSET == 2304
VLP16_FIRING_TOFFSET == 55296
HDL32E_DSR_TOFFSET == 1152
HDL32E_FIRING_TOFFSET == 46080
VLS128_DSR_TOFFSET == 2665
VLS128_FIRING_TOFFSET == 53500
\* the offsetUs argument -8.7 of the VLS128 table
VLS128_OFFSET == -8700

\* sixteenths per unit
Sixteenths == 4 * 4

\* the IndexCalc functions, in sixteenths
block1(x, y)  == Sixteenths * x
block16(x, y) == Sixteenths * (x * 2) + y
point1(x, y)  == Sixteenths * y
point2(x, y)  == (Sixteenths \div 2) * y
point16(x, y) == Sixteenths * (y % 16)

\* a call of the IndexCalc function named f
IndexCalc(f, x, y) ==
    CASE f = "block1" -> block1(x, y)
      [] f = "block16" -> block16(x, y)
      [] f = "point1" -> point1(x, y)
      [] f = "point2" -> point2(x, y)
      [] f = "point16" -> point16(x, y)

\* Calibration.BuildTimings
BuildTimings(rows, cols, fullFiring, singleFiring, offset, block, pt) ==
    [x \in 0..(rows - 1) |->
        [y \in 0..(cols - 1) |->
            fullFiring * IndexCalc(block, x, y) + singleFiring * IndexCalc(pt, x, y)
                + Sixteenths * offset]]

\* Calibration.BuildTimingsFor
BuildTimingsFor(m) ==
    CASE m \in {"VLP16", "VLP16HiRes"} ->
            BuildTimings(12, 32, VLP16_FIRING_TOFFSET, VLP16_DSR_TOFFSET, 0, "block16", "point16")
      [] m = "VLP32C" ->
            BuildTimings(12, 32, VLP16_FIRING_TOFFSET, VLP16_DSR_TOFFSET, 0, "block1", "point2")
      [] m = "HDL32E" ->
            BuildTimings(12, 32, HDL32E_FIRING_TOFFSET, HDL32E_DSR_TOFFSET, 0, "block1", "point2")
      [] m = "VLS128" ->
            BuildTimings(3, 17, VLS128_FIRING_TOFFSET, VLS128_DSR_TOFFSET, VLS128_OFFSET,
                         "block1", "point1")
      [] OTHER -> <<>>

\* no table built yet
InitTimings ==
    /\ model = "none"
    /\ timingOffsets = <<>>
    /\ cell = <<>>
    \* the other classes, unused
    /\ maxPoints = 0
    /\ buffer = <<>>
    /\ data = [byteOffset |-> 0, byteLength |-> 0]
    /\ view = [byteOffset |-> 0, byteLength |-> 0]
    /\ width = 0
    /\ row_step = 0
    /\ written = <<>>
    /\ lastOp = "new"
    /\ prevLen = 0
    /\ pktBuffer = <<>>
    /\ pktData = [byteOffset |-> 0, length |-> 0]
    /\ packet = [status |-> "none"]
    /\ inferred = "none"
    /\ gpsTimestamp = <<>>
    /\ topOfHour = <<>>
    /\ timestamp = <<>>

\* this.timingOffsets = Calibration.BuildTimingsFor(model)
BuildTable ==
    /\ \E m \in Models :
          /\ model' = m
          /\ timingOffsets' = BuildTimingsFor(m)
    /\ cell' = <<>>
    /\ UNCHANGED <<cloudVars, packetVars, timeVars>>

\* a read of timingOffsets[row][column]
ReadCell ==
    /\ \E x \in DOMAIN timingOffsets :
          \E y \in DOMAIN timingOffsets[x] : cell' = <<x, y>>
    /\ UNCHANGED <<model, timingOffsets>>
    /\ UNCHANGED <<cloudVars, packetVars, timeVars>>

-----------------------------------------------------------------------------
(* RawPacket *)

RAW_SCAN_SIZE == 3
SCANS_PER_BLOCK == 32
BLOCK_DATA_SIZE == SCANS_PER_BLOCK * RAW_SCAN_SIZE
BLOCK_SIZE == BLOCK_DATA_SIZE + 4
BLOCKS_PER_PACKET == 12
\* the packet length the constructor accepts
PACKET_SIZE == 1206

\* enum FactoryId (VelodyneTypes): the factory-id codes of the trailer
FactoryId ==
    [HDL32E |-> 33, VLP16 |-> 34, VLP32AB |-> 35, VLP16HiRes |-> 36,
     VLP32C |-> 40, Velarray |-> 49, HDL64 |-> 160, VLS128Old |-> 99,
     VLS128 |-> 161]

\* enum ReturnMode (VelodyneTypes): the return-mode codes of the trailer
ReturnMode == [Strongest |-> 55, LastReturn |-> 56, DualReturn |-> 57]

\* `n in E` for a byte n and a numeric enum E: the enum object has a key for
\* each member name and, by reverse mapping, for each member value
InEnum(n, E) == \E k \in DOMAIN E : E[k] = n

\* new RawBlock(blockData): keeps the view of its 100 bytes
RawBlock(blockData) == [data |-> blockData]

\* new Uint8Array(buffer, byteOffset, length) is a RangeError unless the range
\* lies in the buffer
SubarrayOk(b, byteOffset, length) == byteOffset + length <= ByteLength(b)

\* data[i] of a Uint8Array view d on buffer b; an index beyond the length reads
\* undefined, held as -1
At(b, d, i) == IF i < d.length THEN b[d.byteOffset + i] ELSE -1

\* the length check of the constructor
LengthOk_atMost(d) == d.length <= PACKET_SIZE
LengthOk(d) == ~(d.length # PACKET_SIZE)

\* the optional enum value decoded from raw byte n: <<n>> when set, <<>> when not
DecodeEnum_none(n, E) == <<>>
DecodeEnum(n, E) == IF InEnum(n, E) THEN <<n>> ELSE <<>>

\* new RawPacket(data), as the record of its fields or the error thrown
NewRawPacket(b, d) ==
    IF ~LengthOk(d) THEN [status |-> "Error"]
    ELSE IF \E i \in 0..(BLOCKS_PER_PACKET - 1) :
                ~SubarrayOk(b, d.byteOffset + BLOCK_SIZE * i, BLOCK_SIZE)
         THEN [status |-> "RangeError"]
    ELSE IF ~ViewInBounds([byteOffset |-> d.byteOffset, byteLength |-> d.length], 1200, 4)
         THEN [status |-> "RangeError"]
    ELSE LET blocks == [i \in 1..BLOCKS_PER_PACKET |->
                          RawBlock([byteOffset |-> d.byteOffset + BLOCK_SIZE * (i - 1),
                                    length |-> BLOCK_SIZE])]
             v == [byteOffset |-> d.byteOffset, byteLength |-> d.length]
             factoryField1 == At(b, d, 1204)
             factoryField2 == At(b, d, 1205)
         IN  [status        |-> "ok",
              blocks        |-> blocks,
              gpsTimestamp  |-> GetUint32(b, v, 1200),
              factoryField1 |-> factoryField1,
              factoryField2 |-> factoryField2,
              returnMode    |-> DecodeEnum(factoryField1, ReturnMode),
              factoryId     |-> DecodeEnum(factoryField2, FactoryId)]

\* the model returned for FactoryId.HDL64
Hdl64Model_undetermined == "undefined"
Hdl64Model == "HDL64E"

\* RawPacket.InferModel(packet)
InferModel(b, d) ==
    LET factoryId == At(b, d, 1205)
    IN  CASE factoryId = FactoryId.HDL32E -> "HDL32E"
          [] factoryId = FactoryId.VLP16 -> "VLP16"
          [] factoryId = FactoryId.VLP32AB -> "undefined"
          [] factoryId = FactoryId.VLP16HiRes -> "VLP16HiRes"
          [] factoryId = FactoryId.VLP32C -> "VLP32C"
          [] factoryId = FactoryId.Velarray -> "undefined"
          [] factoryId = FactoryId.HDL64 -> Hdl64Model
          [] factoryId \in {FactoryId.VLS128Old, FactoryId.VLS128} -> "VLS128"
          [] OTHER -> "undefined"

\* the (byteOffset, length, buffer length) shapes of the arrays handed in
PacketShapes ==
    { <<0, 0, 0>>, <<0, 1205, 1205>>, <<0, 1206, 1206>>, <<2, 1206, 1210>>,
      <<0, 1207, 1207>>, <<0, 1200, 1206>> }

\* the return-mode bytes tried: the known codes, their neighbours, the extremes
ReturnModeBytes == {0, 54, 55, 56, 57, 58, 33, 255}

\* a packet buffer: every byte is a function of its index but the two trailer
\* bytes, which are free
PacketBuffer(shape, f1, f2) ==
    [i \in 0..(shape[3] - 1) |->
        IF i = shape[1] + 1204 THEN f1
        ELSE IF i = shape[1] + 1205 THEN f2
        ELSE (i * 7 + 3) % 256]

InitPacket ==
    /\ \E shape \in PacketShapes, f1 \in ReturnModeBytes, f2 \in Byte :
          /\ pktBuffer = PacketBuffer(shape, f1, f2)
          /\ pktData = [byteOffset |-> shape[1], length |-> shape[2]]
    /\ packet = [status |-> "none"]
    /\ inferred = "none"
    \* the other classes, unused
    /\ maxPoints = 0
    /\ buffer = <<>>
    /\ data = [byteOffset |-> 0, byteLength |-> 0]
    /\ view = [byteOffset |-> 0, byteLength |-> 0]
    /\ width = 0
    /\ row_step = 0
    /\ written = <<>>
    /\ lastOp = "new"
    /\ prevLen = 0
    /\ model = "none"
    /\ timingOffsets = <<>>
    /\ cell = <<>>
    /\ gpsTimestamp = <<>>
    /\ topOfHour = <<>>
    /\ timestamp = <<>>

\* packet = new RawPacket(data)
Construct ==
    /\ packet' = NewRawPacket(pktBuffer, pktData)
    /\ UNCHANGED <<pktBuffer, pktData, inferred>>
    /\ UNCHANGED <<cloudVars, timingVars, timeVars>>

\* RawPacket.InferModel(data), also reached through packet.inferModel()
Infer ==
    /\ inferred' = InferModel(pktBuffer, pktData)
    /\ UNCHANGED <<pktBuffer, pktData, packet>>
    /\ UNCHANGED <<cloudVars, timingVars, timeVars>>

-----------------------------------------------------------------------------
(* RawPacket.GpsTimestampToTimestamp.  Numbers are little-endian tuples of *)
(* five base-10^6 limbs.  A Date is its epoch milliseconds; the value      *)
(* returned, a number of seconds, is held exactly in microseconds.         *)

LimbBase == 1000 * 1000

\* <<l1, ..., l5>> stands for l1 + l2*10^6 + l3*10^12 + l4*10^18 + l5*10^24
L(l1, l2, l3) == <<l1, l2, l3, 0, 0>>

\* carries propagated from limb k on
RECURSIVE Carry(_, _, _)
Carry(a, k, c) ==
    IF k > Len(a) THEN a
    ELSE LET t == a[k] + c
         IN  Carry([a EXCEPT ![k] = t % LimbBase], k + 1, t \div LimbBase)

AddL(a, b) == Carry([k \in 1..Len(a) |-> a[k] + b[k]], 1, 0)

\* a - b for a >= b
SubL(a, b) == Carry([k \in 1..Len(a) |-> a[k] - b[k]], 1, 0)

\* a * n for 0 <= n <= 1000
MulSmall(a, n) == Carry([k \in 1..Len(a) |-> a[k] * n], 1, 0)

\* a * 10^(6n)
ShiftL(a, n) == [k \in 1..Len(a) |-> IF k > n THEN a[k - n] ELSE 0]

\* a mod 3,600,000 for a below 10^18: with a = 10^5 * q + r, it is
\* 10^5 * (q mod 36) + r, and 10^7 mod 36 = 28
ModHour(a) ==
    LET r == a[1] % 100000
        q == (a[1] \div 100000) + 10 * (a[2] % 36) + 28 * (a[3] % 36)
    IN  100000 * (q % 36) + r

\* new Date() then setMinutes(0, 0, 0): the top of the current hour of the
\* local time zone, tz being the zone's offset from UTC in milliseconds
LocalTopOfHour(now, tz) ==
    LET local == AddL(now, L(tz, 0, 0))
    IN  SubL(SubL(local, L(ModHour(local), 0, 0)), L(tz, 0, 0))

\* gpsTimestamp / 1e-6, in microseconds: gpsTimestamp * 10^6 seconds
GpsSeconds(g) == ShiftL(g, 2)

\* GpsTimestampToTimestamp(gpsTimestamp, topOfHour): +topOfHour / 1000 +
\* gpsTimestamp / 1e-6, in microseconds
GpsTimestampToTimestamp(g, t) == AddL(MulSmall(t, 1000), GpsSeconds(g))

\* the gpsTimestamp arguments: 0, 1, 999999, 10^6, 2^31, one hour,
\* one hour less 1, 2^32 - 1 and some between
GpsTimestamps ==
    { L(0, 0, 0), L(1, 0, 0), L(999999, 0, 0), L(0, 1, 0), L(500000, 1799, 0),
      L(483648, 2147, 0), L(999999, 3599, 0), L(0, 3600, 0), L(1, 3600, 0),
      L(967294, 4294, 0), L(967295, 4294, 0) }

\* the Dates supplied: the epoch, 1970-01-01T01:00Z, 2024-01-01T10:00:00Z,
\* 2024-01-01T10:00:00.001Z, 2038-01-19T03:00Z, 2001-09-09T01:00Z
TopOfHours ==
    { L(0, 0, 0), L(600000, 3, 0), L(200000, 704103, 1), L(200001, 704103, 1),
      L(800000, 147482, 2), L(600000, 0, 1) }

\* the wall clock readings when no Date is supplied (1970-01-01T23:55..Z and
\* three around 2024-01-01T11:00Z)
Nows ==
    { L(123456, 86, 0), L(345678, 704105, 1), L(799999, 704106, 1),
      L(800000, 704106, 1) }

\* the local zone offsets: UTC, +01:00, +05:30, +05:45
ZoneOffsets == { 0, 3600000, 19800000, 20700000 }

\* no conversion made yet
InitTime ==
    /\ gpsTimestamp = <<>>
    /\ topOfHour = <<>>
    /\ timestamp = <<>>
    \* the other classes, unused
    /\ maxPoints = 0
    /\ buffer = <<>>
    /\ data = [byteOffset |-> 0, byteLength |-> 0]
    /\ view = [byteOffset |-> 0, byteLength |-> 0]
    /\ width = 0
    /\ row_step = 0
    /\ written = <<>>
    /\ lastOp = "new"
    /\ prevLen = 0
    /\ model = "none"
    /\ timingOffsets = <<>>
    /\ cell = <<>>
    /\ pktBuffer = <<>>
    /\ pktData = [byteOffset |-> 0, length |-> 0]
    /\ packet = [status |-> "none"]
    /\ inferred = "none"

\* GpsTimestampToTimestamp(g, t) with a Date supplied
ConvertSupplied ==
    /\ \E g \in GpsTimestamps, t \in TopOfHours :
          /\ gpsTimestamp' = g
          /\ topOfHour' = t
          /\ timestamp' = GpsTimestampToTimestamp(g, t)
    /\ UNCHANGED <<cloudVars, timingVars, packetVars>>

\* GpsTimestampToTimestamp(g) with topOfHour undefined
ConvertNow ==
    /\ \E g \in GpsTimestamps, now \in Nows, tz \in ZoneOffsets :
          LET t == LocalTopOfHour(now, tz)
          IN  /\ gpsTimestamp' = g
              /\ topOfHour' = t
              /\ timestamp' = GpsTimestampToTimestamp(g, t)
    /\ UNCHANGED <<cloudVars, timingVars, packetVars>>

-----------------------------------------------------------------------------
(* Specifications: one per class, the other classes' state held still *)

NextCloud == addPoint \/ trim
SpecCloud == InitCloud /\ [][NextCloud]_vars

NextTimings == BuildTable \/ ReadCell
SpecTimings == InitTimings /\ [][NextTimings]_vars

NextPacket == Construct \/ Infer
SpecPacket == InitPacket /\ [][NextPacket]_vars

NextTime == ConvertSupplied \/ ConvertNow
SpecTime == InitTime /\ [][NextTime]_vars

-----------------------------------------------------------------------------
(* Properties of PointCloud, under SpecCloud *)

\* the 28 bytes of record i
RecordBytes(b, i) == [k \in 0..(POINT_STEP - 1) |-> b[i * POINT_STEP + k]]

\* C2: in every state reachable by addPoint and trim calls, calls on a full
\* buffer included, width never exceeds maxPoints and row_step = width * 28.
C2_WidthWithinCapacity ==
    /\ width <= maxPoints
    /\ row_step = width * 28

\* an addPoint call on a full, non-empty buffer has thrown and left it full
C2_FullBufferRefused ==
    /\ lastOp = "addPoint:RangeError"
    /\ maxPoints > 0
    /\ width = maxPoints
    /\ row_step = maxPoints * 28

\* C3: for every index i below width, point(i) returns exactly the values the
\* i-th addPoint call was given, whenever ring and azimuth were in 0..65535
\* and deltaNs in 0..2^32-1 (the floats being float32-representable).
C3_PointRoundTrip ==
    \A i \in 0..(width - 1) :
        InRange(written[i + 1]) => point(i) = written[i + 1]

\* two records are held, one with every integer field at its upper boundary
\* and one with a NaN, and both read back as written
C3_BoundariesReadBack ==
    /\ width >= 2
    /\ \E i \in 0..(width - 1) :
          /\ written[i + 1].ring = 65535
          /\ written[i + 1].azimuth = 65535
          /\ written[i + 1].deltaNs = U32(65535, 65535, 0)
          /\ written[i + 1].z = MaxFloat
          /\ point(i) = written[i + 1]
    /\ \E j \in 0..(width - 1) :
          /\ written[j + 1].x = NaN
          /\ point(j) = written[j + 1]

\* C4: the buffer is append-only: no addPoint or trim step changes the 28
\* bytes of a record already written, nor what point(i) returns for it.
C4_AppendOnly ==
    [][\A i \in 0..(width - 1) :
          /\ RecordBytes(buffer', i) = RecordBytes(buffer, i)
          /\ point(i)' = point(i)]_vars

\* record 0 has survived a trim, a later addPoint that wrote record 1 past the
\* trimmed range, and reads back as written
C4_SurvivedLaterCalls ==
    /\ width >= 2
    /\ data.byteLength < row_step
    /\ lastOp \in {"addPoint", "addPoint:RangeError"}
    /\ point(0) = written[1]
    /\ written[1] # written[2]

\* C5: right after any trim call data.byteLength is exactly width * 28, the
\* bytes of every record written before it are unchanged, and so are width
\* and row_step.
C5_TrimExact ==
    [][trim =>
          /\ data'.byteLength = width' * 28
          /\ width' = width
          /\ row_step' = row_step
          /\ \A i \in 0..(width - 1) :
                RecordBytes(buffer', i) = RecordBytes(buffer, i)]_vars

\* a trim that followed an addPoint made after an earlier trim: data grew to
\* the new width * 28
C5_TrimAfterAddAfterTrim ==
    /\ lastOp = "trim"
    /\ width >= 2
    /\ prevLen < data.byteLength
    /\ data.byteLength = width * 28
    /\ data.byteLength < maxPoints * 28

\* C9: in every state reachable by addPoint and trim calls, data exposes
\* every record written so far: data.byteLength >= row_step = width * 28.
C9_DataCoversWritten ==
    /\ row_step = width * 28
    /\ data.byteLength >= row_step

-----------------------------------------------------------------------------
(* Properties of RawPacket, under SpecPacket *)

\* C1: constructing a RawPacket from a buffer whose length is not 1206 always
\* fails with an error, and from any buffer of length 1206 always succeeds
\* and yields exactly 12 blocks.
C1_LengthDecides ==
    packet.status # "none" =>
        IF pktData.length = 1206
        THEN packet.status = "ok" /\ Len(packet.blocks) = 12
        ELSE packet.status = "Error"

\* a 1206-byte array at a non-zero offset of a larger buffer was decoded into
\* 12 blocks of 100 bytes laid end to end
C1_DecodedTwelveBlocks ==
    /\ packet.status = "ok"
    /\ pktData.byteOffset = 2
    /\ Len(packet.blocks) = 12
    /\ \A i \in 1..12 :
          packet.blocks[i].data = [byteOffset |-> 2 + 100 * (i - 1), length |-> 100]

\* the model the claim gives for a factory-id byte, HDL64 apart
ClaimedModel(n) ==
    CASE n = FactoryId.HDL32E -> "HDL32E"
      [] n = FactoryId.VLP16 -> "VLP16"
      [] n = FactoryId.VLP16HiRes -> "VLP16HiRes"
      [] n = FactoryId.VLP32C -> "VLP32C"
      [] n = FactoryId.VLS128Old -> "VLS128"
      [] n = FactoryId.VLS128 -> "VLS128"
      [] OTHER -> "undefined"

\* C6 as stated: InferModel is a total function of the byte at offset 1205:
\* the single-model factory ids map to their model, and VLP32AB, HDL64,
\* Velarray and every other byte give undetermined.
C6_Hdl64Undetermined ==
    inferred # "none" => inferred = ClaimedModel(At(pktBuffer, pktData, 1205))

\* C6 amended: as stated, but FactoryId.HDL64 maps to the model HDL64E.
C6_InferModelTable ==
    inferred # "none" =>
        LET n == At(pktBuffer, pktData, 1205)
        IN  inferred = IF n = FactoryId.HDL64 THEN "HDL64E" ELSE ClaimedModel(n)

\* InferModel was applied to a packet whose factory-id byte is HDL64
C6_InferredHdl64 ==
    /\ inferred = "HDL64E"
    /\ pktData.length = 1206
    /\ At(pktBuffer, pktData, 1205) = 160

\* the values of an enum
Codes(E) == {E[k] : k \in DOMAIN E}

\* C8: for every 1206-byte packet decoding does not fail, factoryField1 and
\* factoryField2 are the raw bytes at 1204 and 1205, returnMode is the byte at
\* 1204 exactly when it is a known return-mode code and unset otherwise, and
\* factoryId is the byte at 1205 exactly when it is a known factory-id code
\* and unset otherwise.
C8_TrailerBestEffort ==
    (packet.status # "none" /\ pktData.length = 1206) =>
        LET b1 == pktBuffer[pktData.byteOffset + 1204]
            b2 == pktBuffer[pktData.byteOffset + 1205]
        IN  /\ packet.status = "ok"
            /\ packet.factoryField1 = b1
            /\ packet.factoryField2 = b2
            /\ packet.returnMode = IF b1 \in Codes(ReturnMode) THEN <<b1>> ELSE <<>>
            /\ packet.factoryId = IF b2 \in Codes(FactoryId) THEN <<b2>> ELSE <<>>

\* a packet with an unknown return-mode byte and a known factory id was decoded
C8_UnknownReturnModeDecoded ==
    /\ packet.status = "ok"
    /\ packet.factoryField1 = 58
    /\ packet.returnMode = <<>>
    /\ packet.factoryField2 = 161
    /\ packet.factoryId = <<161>>

-----------------------------------------------------------------------------
(* Property of GpsTimestampToTimestamp, under SpecTime *)

\* C7: for every gpsTimestamp g and supplied topOfHour the value returned is
\* the epoch time of topOfHour in seconds plus g microseconds: in
\* microseconds, topOfHour * 1000 + g.
C7_MicrosecondsAdded ==
    timestamp # <<>> =>
        timestamp = AddL(MulSmall(topOfHour, 1000), gpsTimestamp)

-----------------------------------------------------------------------------
(* Property of the timing table, under SpecTimings *)

\* fullFiringDuration, singleFiringDuration and bias of a model, in ns
Durations(m) ==
    CASE m \in {"VLP16", "VLP16HiRes", "VLP32C"} -> <<55296, 2304, 0>>
      [] m = "HDL32E" -> <<46080, 1152, 0>>
      [] m = "VLS128" -> <<53500, 2665, -8700>>

\* the whole numbers B and C of the claim
ClaimedB(m, row, column) ==
    IF m \in {"VLP16", "VLP16HiRes"} THEN 2 * row + (column \div 16) ELSE row

ClaimedC(m, row, column) ==
    CASE m \in {"VLP16", "VLP16HiRes"} -> column % 16
      [] m \in {"VLP32C", "HDL32E"} -> column \div 2
      [] m = "VLS128" -> column

\* C10: for every supported model and every cell of its table the entry is
\* fullFiringDuration * B + singleFiringDuration * C + bias with B and C the
\* whole numbers of the claim (the entry being held in sixteenths of a ns).
C10_WholeFirings ==
    (model \in {"VLP16", "VLP16HiRes", "VLP32C", "HDL32E", "VLS128"} /\ cell # <<>>) =>
        LET d == Durations(model)
            row == cell[1]
            column == cell[2]
        IN  timingOffsets[row][column] =
                16 * (d[1] * ClaimedB(model, row, column)
                      + d[2] * ClaimedC(model, row, column) + d[3])

=============================================================================
